---- MODULE Spec2Model ----
(***************************************************************************)
(* Komga-RPC: the poll loop of src/src/main.rs (main), the activity        *)
(* resolver (set_activity), the cover resolver (get_komga_cover_path,      *)
(* upload_to_imgur) and the error classifier of the loop.                  *)
(*                                                                         *)
(* Conventions.  An Option<T> is a sequence of length at most one: None is *)
(* <<>> and Some(x) is <<x>>.  Instants are integers in milliseconds.  A   *)
(* Box<dyn Error> is the sequence of its error values: the head is the     *)
(* boxed error, the tail its source() chain.  The media server, the image  *)
(* host and the IPC peer are the environment: the record `world` holds     *)
(* what they answer during the coming resolution cycle.                    *)
(***************************************************************************)
EXTENDS Integers, Sequences, FiniteSets, TLC

VARIABLES
    pc,               \* position of main inside its loop
    clock,            \* seconds elapsed since last_full_check was initialised
    last_page_update, \* value of clock when last_page_update was assigned
    discord,          \* the loop's channel handle: [id, open]
    next_id,          \* identity the next DiscordIpcClient::new will get
    imgur_cache,      \* HashMap<String, String>, as a set of <<key, url>>
    config,           \* Config, loaded once
    world,            \* what the environment answers in the coming cycle
    presence,         \* what the chat client displays
    last,             \* record of the last resolution cycle (history)
    cycles,           \* number of full resolution cycles run (history)
    log               \* channel operations of the current iteration (history)

vars == << pc, clock, last_page_update, discord, next_id, imgur_cache, config,
           world, presence, last, cycles, log >>

----------------------------------------------------------------------------
(* Bounds of the model. *)

\* Books the server holds in a listing.
MaxBooks == 3
\* Seconds of loop time that are explored.
MaxClock == 27
\* Full resolution cycles explored in one run of the loop.
MaxCycles == 8

(* Program constants. *)

\* set_activity: (now - updated_at).num_seconds() < 300 / >= 300
FreshnessSecs == 300
\* main: full_check_interval
full_check_interval == 20
\* main: page_update_interval
page_update_interval == 5
\* main: time::sleep(Duration::from_secs(5)) before the reconnect
ReconnectCooldown == 5
\* main: time::sleep(Duration::from_secs(1)) at the end of an iteration
LoopSleep == 1
\* reqwest::StatusCode::UNAUTHORIZED
UNAUTHORIZED == 401
\* reqwest::StatusCode::NOT_FOUND
NOT_FOUND == 404
\* raw_os_error() values the classifier takes for a broken pipe
EPIPE == 32
ERROR_NO_DATA == 232

----------------------------------------------------------------------------
(* Options and small helpers. *)

None == << >>
Some(x) == << x >>
IsSome(o) == Len(o) = 1
Unwrap(o) == o[1]
UnwrapOr(o, d) == IF IsSome(o) THEN o[1] ELSE d

Min(a, b) == IF a < b THEN a ELSE b

\* StatusCode::is_success
IsSuccess(status) == status >= 200 /\ status <= 299

\* chrono TimeDelta::num_seconds: whole seconds, truncated toward zero.
NumSeconds(ms) == IF ms >= 0 THEN ms \div 1000 ELSE -((-ms) \div 1000)

\* str::eq_ignore_ascii_case on the library names of the model.
AsciiLower(s) ==
    CASE s = "Manga"  -> "manga"
      [] s = "MANGA"  -> "manga"
      [] s = "Comics" -> "comics"
      [] OTHER        -> s
EqIgnoreAsciiCase(a, b) == AsciiLower(a) = AsciiLower(b)

----------------------------------------------------------------------------
(* The media server's data, as the JSON the resolver probes.               *)

\* Resolution time of the cycles of the model (Utc::now() in set_activity).
NowMs == 1000 * 1000
HourMs == 3600 * 1000

\* readProgress.lastModified: absent, a string that is no RFC 3339 date, or
\* an RFC 3339 date given by its wall-clock reading and its UTC offset.
NoStamp == [kind |-> "absent", wall |-> 0, offset |-> 0]
BadStamp == [kind |-> "invalid", wall |-> 0, offset |-> 0]
Stamp(age_ms, offset) ==
    [kind |-> "rfc3339", wall |-> NowMs - age_ms + offset, offset |-> offset]

\* chrono::DateTime::parse_from_rfc3339(s).ok().map(|dt| dt.with_timezone(&Utc))
\* on rp.get("lastModified").and_then(|v| v.as_str()): the UTC instant.
ParseLastModified(lm) ==
    IF lm.kind = "rfc3339" THEN Some(lm.wall - lm.offset) ELSE None

\* A book of the listing.  rp = None: no readProgress key.  completed = None:
\* no boolean "completed" in readProgress.
\* title, name: the book's top-level strings; meta_title, meta_authors: the
\* book's metadata.title and metadata.authors (names, None for an entry
\* without a name).
Book(id, rp, seriesId, libraryId) ==
    [id |-> id, readProgress |-> rp, seriesId |-> seriesId, libraryId |-> libraryId,
     title |-> None, name |-> None, meta_title |-> None, meta_authors |-> None]
Progress(completed, lm, page) ==
    Some([completed |-> completed, lastModified |-> lm, page |-> page])

\* The books the listings are made of.
BookF1 == Book("F1", Progress(Some(FALSE), Stamp(10000, 0), Some(42)), "S1", "L1")
BookF2 == Book("F2", Progress(Some(FALSE), Stamp(299999, HourMs), None), "S2", "L1")
BookS1 == Book("S1", Progress(Some(FALSE), Stamp(300000, 0), Some(7)), "S1", "L1")
BookS2 == Book("S2", Progress(Some(FALSE), Stamp(600000, 0), None), "S2", "")
BookNT == Book("NT", Progress(Some(FALSE), BadStamp, Some(3)), "S1", "L1")
BookCP == Book("CP", Progress(Some(TRUE), Stamp(5000, 0), Some(9)), "S2", "L1")
BookNR == Book("NR", None, "S1", "L1")
BookNC == Book("NC", Progress(None, Stamp(5000, 0), None), "S1", "L1")
BookNS == Book("NS", Progress(Some(FALSE), NoStamp, None), "S2", "L1")

BookPool == { BookF1, BookF2, BookS1, BookS2, BookNT, BookCP, BookNR, BookNC }
BookF3 == Book("F3", Progress(Some(FALSE), Stamp(-2500, 0), Some(1)), "S1", "")
LookupBooks == { BookF1, BookF2, BookF3, BookNS }

SeqsUpTo(S, n) == UNION { [1..k -> S] : k \in 0..n }

\* What GET /api/v1/books?page=p answers.  The server cuts w.books into pages
\* of w.pageSize books; w.fail = Some([page, kind]) makes that page fail with
\* a transport error, a non-2xx status or a body that is no JSON.
ServerPage(w, p) ==
    IF IsSome(w.fail) /\ Unwrap(w.fail).page = p
    THEN [kind |-> Unwrap(w.fail).kind, status |-> Unwrap(w.fail).status,
          content |-> << >>, last |-> None]
    ELSE LET lo == p * w.pageSize + 1
             hi == Min((p + 1) * w.pageSize, Len(w.books))
         IN [kind |-> "response", status |-> 200,
             content |-> IF lo > hi THEN << >> ELSE SubSeq(w.books, lo, hi),
             last |-> IF w.lastFlag THEN Some(hi >= Len(w.books)) ELSE None]

----------------------------------------------------------------------------
(* Errors: a Box<dyn Error> is the sequence of the error values of its     *)
(* source chain, the boxed error first.                                    *)

ErrorValue(type, status, io_kind, os) ==
    [type |-> type, status |-> status, io_kind |-> io_kind, os |-> os]

\* format!(...).into(): a boxed string, with no source.
StringError == << ErrorValue("string", None, "", None) >>
\* A reqwest::Error of send(), bytes() or json(): it carries no status
\* (status() is Some only for errors built by error_for_status).
ReqwestError == << ErrorValue("reqwest", None, "", None) >>
\* A std::io::Error.
IoError(io_kind, os) == << ErrorValue("io", None, io_kind, os) >>
\* The reqwest::Error of a send() that failed in world w, followed by its
\* source chain: the transport's error values, which may end in the
\* io::Error of the HTTP connection.
TransportError(w) ==
    ReqwestError \o (IF w.http_source = "pipe"
                     THEN << ErrorValue("hyper", None, "", None) >>
                          \o IoError("BrokenPipe", Some(EPIPE))
                     ELSE << >>)
\* An error of the presence library that is no io::Error (its source chain
\* follows it).
DiscordError == << ErrorValue("discord", None, "", None) >>

----------------------------------------------------------------------------
(* set_activity: the paged scan for the in-progress book.                  *)

\* line 378: (now - updated_at).num_seconds() < 300
IsRecent(now, updated_at) == NumSeconds(now - updated_at) < FreshnessSecs

\* line 417: (now - updated_at).num_seconds() >= 300
\* (faulty variant: the boundary second counts as recent)
IsTooOldMut(now, updated_at) == NumSeconds(now - updated_at) > FreshnessSecs
IsTooOld(now, updated_at) == NumSeconds(now - updated_at) >= FreshnessSecs

\* line 373: rp.get("completed").and_then(|v| v.as_bool()).unwrap_or(true)
\* (faulty variant: a missing flag counts as in progress)
CompletedMut(rp) == UnwrapOr(rp.completed, FALSE)
Completed(rp) == UnwrapOr(rp.completed, TRUE)

\* lines 344-346: most_recent_book, most_recent_time, found
ScanStart == [most_recent_book |-> None, most_recent_time |-> None, found |-> FALSE]

\* lines 371-391: the body of `for book in &books` for one book.
\* (faulty variant: a book without a parseable date is tracked too)
ScanBookMut(st, book, now) ==
    IF ~IsSome(book.readProgress) THEN st
    ELSE LET rp == Unwrap(book.readProgress)
             last_modified == ParseLastModified(rp.lastModified)
         IN IF Completed(rp) THEN st
            ELSE IF ~IsSome(last_modified)
                 THEN [most_recent_book |-> Some(book),
                       most_recent_time |-> st.most_recent_time, found |-> FALSE]
            ELSE IF IsRecent(now, Unwrap(last_modified))
                 THEN [most_recent_book |-> Some(book),
                       most_recent_time |-> last_modified, found |-> TRUE]
                 ELSE IF ~IsSome(st.most_recent_time)
                          \/ Unwrap(last_modified) > Unwrap(st.most_recent_time)
                      THEN [most_recent_book |-> Some(book),
                            most_recent_time |-> last_modified, found |-> FALSE]
                      ELSE st
ScanBook(st, book, now) ==
    IF ~IsSome(book.readProgress) THEN st
    ELSE LET rp == Unwrap(book.readProgress)
             last_modified == ParseLastModified(rp.lastModified)
         IN IF Completed(rp) THEN st
            ELSE IF ~IsSome(last_modified) THEN st
            ELSE IF IsRecent(now, Unwrap(last_modified))
                 THEN [most_recent_book |-> Some(book),
                       most_recent_time |-> last_modified, found |-> TRUE]
                 ELSE IF ~IsSome(st.most_recent_time)
                          \/ Unwrap(last_modified) > Unwrap(st.most_recent_time)
                      THEN [most_recent_book |-> Some(book),
                            most_recent_time |-> last_modified, found |-> FALSE]
                      ELSE st

\* lines 370-392: the for loop over one page, left at the first recent book.
\* (faulty variant: the loop goes on after a recent book)
RECURSIVE ScanBooksMut(_, _, _, _)
ScanBooksMut(books, i, st, now) ==
    IF i > Len(books) THEN st
    ELSE ScanBooksMut(books, i + 1, ScanBook(st, books[i], now), now)
RECURSIVE ScanBooks(_, _, _, _)
ScanBooks(books, i, st, now) ==
    IF i > Len(books) \/ st.found THEN st
    ELSE ScanBooks(books, i + 1, ScanBook(st, books[i], now), now)

\* lines 349-402: the loop over the pages.  The result holds the scan state,
\* the pages requested in order, and the error the `?` or the status check
\* returned (<< >> when the loop left by break).
ScanResult(st, pages, err, status) ==
    [st |-> st, pages |-> pages, err |-> err, status |-> status]

\* (faulty variant: a page without the "last" flag is taken for the last)
RECURSIVE ScanPagesMut(_, _, _, _)
ScanPagesMut(w, page, st, requested) ==
    LET response == ServerPage(w, page)
        pages == Append(requested, page)
    IN IF response.kind = "transport"
           THEN ScanResult(st, pages, TransportError(w), None)
       ELSE IF ~IsSuccess(response.status)
           THEN ScanResult(st, pages, StringError, Some(response.status))
       ELSE IF response.kind = "badjson"
           THEN ScanResult(st, pages, ReqwestError, None)
       ELSE IF response.content = << >>
           THEN ScanResult(st, pages, << >>, None)
       ELSE LET st2 == ScanBooks(response.content, 1, st, w.now)
            IN IF st2.found THEN ScanResult(st2, pages, << >>, None)
               ELSE IF UnwrapOr(response.last, TRUE)
                    THEN ScanResult(st2, pages, << >>, None)
               ELSE ScanPagesMut(w, page + 1, st2, pages)
RECURSIVE ScanPages(_, _, _, _)
ScanPages(w, page, st, requested) ==
    LET response == ServerPage(w, page)
        pages == Append(requested, page)
    IN IF response.kind = "transport"
           THEN ScanResult(st, pages, TransportError(w), None)
       ELSE IF ~IsSuccess(response.status)
           THEN ScanResult(st, pages, StringError, Some(response.status))
       ELSE IF response.kind = "badjson"
           THEN ScanResult(st, pages, ReqwestError, None)
       ELSE IF response.content = << >>
           THEN ScanResult(st, pages, << >>, None)
       ELSE LET st2 == ScanBooks(response.content, 1, st, w.now)
            IN IF st2.found THEN ScanResult(st2, pages, << >>, None)
               ELSE IF UnwrapOr(response.last, FALSE)
                    THEN ScanResult(st2, pages, << >>, None)
               ELSE ScanPages(w, page + 1, st2, pages)

----------------------------------------------------------------------------
(* The cover resolver.                                                     *)

\* HashMap::get and HashMap::insert on imgur_cache.
CacheGet(cache, key) ==
    IF \E e \in cache : e[1] = key
    THEN Some((CHOOSE e \in cache : e[1] = key)[2])
    ELSE None
CacheInsert(cache, key, url) == { e \in cache : e[1] # key } \cup { << key, url >> }

\* line 551: format!("komga_{}", series_id)
CacheKey(series_id) == "komga_" \o series_id

\* lines 589-621: upload_to_imgur, on the image host's answer w.upload.
\* Ok(link) is Some(link); every Err is None (the caller only tests Ok).
upload_to_imgur(w) ==
    IF w.upload.kind = "transport" THEN None
    ELSE IF ~IsSuccess(w.upload.status) THEN None
    ELSE IF w.upload.kind = "badjson" THEN None
    ELSE IF ~w.upload.success THEN None
    ELSE Some(w.upload.link)

CoverResult(err, url, cache, thumb_calls, upload_calls) ==
    [err |-> err, url |-> url, cache |-> cache,
     thumb_calls |-> thumb_calls, upload_calls |-> upload_calls]

\* lines 543-587: get_komga_cover_path.
\* (faulty variant: the cache is written but never read)
get_komga_cover_path_Mut(cfg, series_id, cache, w) ==
    IF UnwrapOr(cfg.use_imgur_cover, TRUE) /\ IsSome(cfg.imgur_client_id)
    THEN LET cache_key == CacheKey(series_id)
         IN IF w.thumb.kind = "transport" THEN CoverResult(<< >>, None, cache, 1, 0)
            ELSE IF IsSuccess(w.thumb.status)
                 THEN IF w.thumb.kind = "badbody"
                      THEN CoverResult(TransportError(w), None, cache, 1, 0)
                      ELSE LET imgur_url == upload_to_imgur(w)
                           IN IF IsSome(imgur_url)
                              THEN CoverResult(<< >>, imgur_url,
                                       CacheInsert(cache, cache_key, Unwrap(imgur_url)), 1, 1)
                              ELSE CoverResult(<< >>, None, cache, 1, 1)
                 ELSE CoverResult(<< >>, None, cache, 1, 0)
    ELSE CoverResult(<< >>, None, cache, 0, 0)
get_komga_cover_path(cfg, series_id, cache, w) ==
    IF UnwrapOr(cfg.use_imgur_cover, TRUE) /\ IsSome(cfg.imgur_client_id)
    THEN LET cache_key == CacheKey(series_id)
             cached_url == CacheGet(cache, cache_key)
         IN IF IsSome(cached_url) THEN CoverResult(<< >>, cached_url, cache, 0, 0)
            ELSE IF w.thumb.kind = "transport" THEN CoverResult(<< >>, None, cache, 1, 0)
            ELSE IF IsSuccess(w.thumb.status)
                 THEN IF w.thumb.kind = "badbody"
                      THEN CoverResult(TransportError(w), None, cache, 1, 0)
                      ELSE LET imgur_url == upload_to_imgur(w)
                           IN IF IsSome(imgur_url)
                              THEN CoverResult(<< >>, imgur_url,
                                       CacheInsert(cache, cache_key, Unwrap(imgur_url)), 1, 1)
                              ELSE CoverResult(<< >>, None, cache, 1, 1)
                 ELSE CoverResult(<< >>, None, cache, 1, 0)
    ELSE CoverResult(<< >>, None, cache, 0, 0)

----------------------------------------------------------------------------
(* The presence channel, as the loop sees it.                              *)

\* What a set_activity / clear_activity on handle d returns in world w:
\* "ok", or the kind of failure.  A handle that is not open cannot succeed.
ChannelCall(w, d) ==
    IF ~d.open /\ w.ipc = "ok" THEN "not_connected" ELSE w.ipc

\* The Box<dyn Error> of a failed channel call.
IpcError(outcome) ==
    CASE outcome = "broken_pipe"  -> IoError("BrokenPipe", Some(EPIPE))
      [] outcome = "os232"        -> IoError("Other", Some(ERROR_NO_DATA))
      [] outcome = "os32"         -> IoError("Other", Some(EPIPE))
      [] outcome = "wrapped_pipe" -> DiscordError \o IoError("BrokenPipe", None)
      [] outcome = "io_other"     -> IoError("ConnectionRefused", Some(111))
      [] OTHER                    -> DiscordError

----------------------------------------------------------------------------
(* set_activity: one resolution cycle.                                     *)

\* What one call of set_activity did.  err: << >> for Ok(()), else the
\* returned error.  branch: the return statement taken.  ipc: the call made
\* on the channel ("none", "clear", "set"), and whether it succeeded.
\* calls: the calls made on the channel, in order.
\* listing_status: the non-2xx status of the listing page that failed.
CycleResult(err, branch, ipc, ipc_ok, activity, author_text, scan, cover) ==
    [err |-> err, branch |-> branch, ipc |-> ipc, ipc_ok |-> ipc_ok,
     calls |-> IF ipc = "none" THEN << >> ELSE << ipc >>,
     activity |-> activity, author_text |-> author_text,
     selected |-> scan.st.most_recent_book, found |-> scan.st.found,
     pages |-> scan.pages, listing_status |-> scan.status,
     cache |-> cover.cache, cover_url |-> cover.url,
     thumb_calls |-> cover.thumb_calls, upload_calls |-> cover.upload_calls]

\* No cover resolution took place: the cache is as it was.
NoCover(cache) == CoverResult(<< >>, None, cache, 0, 0)

\* `return Err(..)` / `?` before any channel call.
\* (faulty variant: the presence is cleared before the error is returned)
FailsMut(err, branch, scan, cache) ==
    CycleResult(err, branch, "clear", TRUE, None, None, scan, NoCover(cache))
Fails(err, branch, scan, cache) ==
    CycleResult(err, branch, "none", FALSE, None, None, scan, NoCover(cache))

\* discord.clear_activity()?; return Ok(());
\* (faulty variant: the return is missing and an empty activity is set
\* after the clear)
ClearsMut(w, d, branch, scan, cache) ==
    LET outcome == ChannelCall(w, d)
    IN [CycleResult(IF outcome = "ok" THEN << >> ELSE IpcError(outcome), branch,
                    "clear", outcome = "ok", None, None, scan, NoCover(cache))
          EXCEPT !.calls = << "clear", "set" >>]
Clears(w, d, branch, scan, cache) ==
    LET outcome == ChannelCall(w, d)
    IN CycleResult(IF outcome = "ok" THEN << >> ELSE IpcError(outcome), branch,
                   "clear", outcome = "ok", None, None, scan, NoCover(cache))

\* Vec<String>::join
RECURSIVE Join(_, _)
Join(names, sep) ==
    IF Len(names) = 0 THEN ""
    ELSE IF Len(names) = 1 THEN names[1]
    ELSE names[1] \o sep \o Join(Tail(names), sep)

\* lines 485-489: the names of the metadata.authors entries that have one.
RECURSIVE NamesOf(_)
NamesOf(entries) ==
    IF Len(entries) = 0 THEN << >>
    ELSE (IF IsSome(entries[1]) THEN << Unwrap(entries[1]) >> ELSE << >>)
         \o NamesOf(Tail(entries))

\* lines 482-504: author_text.
AuthorText(book, series, library_name) ==
    LET book_authors == IF IsSome(book.meta_authors)
                        THEN NamesOf(Unwrap(book.meta_authors)) ELSE << >>
        authors == IF book_authors # << >> THEN book_authors
                   ELSE UnwrapOr(series.authors, << >>)
    IN IF authors # << >> THEN Join(authors, ", ")
       ELSE IF IsSome(library_name) THEN Unwrap(library_name)
       ELSE "Unknown Author"

\* line 432: .and_then(|v| v.as_u64()).map(|v| v as u32).  as_u64 gives
\* nothing for a negative number; the cast to u32 is the identity on every
\* page number below 2^32.
PageNum(page) ==
    IF IsSome(page) /\ Unwrap(page) >= 0 THEN page ELSE None

\* lines 509-518: state, the second line of the activity.
\* (faulty variant: an absent page number is displayed as page 0)
StateTextMut(book, page_num) ==
    LET title == IF IsSome(book.meta_title) THEN Unwrap(book.meta_title)
                 ELSE IF IsSome(book.title) THEN Unwrap(book.title)
                 ELSE IF IsSome(book.name) THEN Unwrap(book.name)
                 ELSE "Untitled Book"
    IN title \o " (Page " \o ToString(UnwrapOr(page_num, 0)) \o ")"
StateText(book, page_num) ==
    LET title == IF IsSome(book.meta_title) THEN Unwrap(book.meta_title)
                 ELSE IF IsSome(book.title) THEN Unwrap(book.title)
                 ELSE IF IsSome(book.name) THEN Unwrap(book.name)
                 ELSE "Untitled Book"
    IN IF IsSome(page_num)
       THEN title \o " (Page " \o ToString(Unwrap(page_num)) \o ")"
       ELSE title

\* lines 521-541: build the activity, resolve the cover, push.
Pushes(w, cfg, cache, d, book, scan, series_title, author_text) ==
    LET page_num == PageNum(Unwrap(book.readProgress).page)
        details == series_title
        state == StateText(book, page_num)
        cover == get_komga_cover_path(cfg, book.seriesId, cache, w)
        final_activity ==
            [details |-> details, state |-> state, large_image |-> cover.url,
             large_text |-> IF IsSome(cover.url) THEN Some(details) ELSE None]
        outcome == ChannelCall(w, d)
    IN IF cover.err # << >>
       THEN CycleResult(cover.err, "cover_error", "none", FALSE, None,
                        Some(author_text), scan, cover)
       ELSE CycleResult(IF outcome = "ok" THEN << >> ELSE IpcError(outcome),
                        "pushed", "set", outcome = "ok", Some(final_activity),
                        Some(author_text), scan, cover)

\* lines 467-504: the library lookup and the author text.
LooksUpLibrary(w, cfg, cache, d, book, scan, series, series_title) ==
    LET library_id == book.libraryId
        asked == library_id # ""
        library_name == IF asked /\ w.library.kind = "response"
                           /\ IsSuccess(w.library.status)
                        THEN w.library.name ELSE None
    IN IF asked /\ w.library.kind = "transport"
           THEN Fails(TransportError(w), "library_error", scan, cache)
       ELSE IF asked /\ IsSuccess(w.library.status) /\ w.library.kind = "badjson"
           THEN Fails(ReqwestError, "library_error", scan, cache)
       ELSE Pushes(w, cfg, cache, d, book, scan, series_title,
                   AuthorText(book, series, library_name))

\* lines 434-465: the series lookup and the title fallback.
LooksUpSeries(w, cfg, cache, d, book, scan) ==
    IF w.series.kind = "transport"
        THEN Fails(TransportError(w), "series_error", scan, cache)
    ELSE IF ~IsSuccess(w.series.status)
        THEN Clears(w, d, "series_failed", scan, cache)
    ELSE IF w.series.kind = "badjson"
        THEN Fails(ReqwestError, "series_error", scan, cache)
    ELSE IF IsSome(w.series.title)
        THEN LooksUpLibrary(w, cfg, cache, d, book, scan, w.series,
                            Unwrap(w.series.title))
    ELSE IF w.series2.kind = "transport"
        THEN Fails(TransportError(w), "series_error", scan, cache)
    ELSE IF IsSuccess(w.series2.status) /\ w.series2.kind = "badjson"
        THEN Fails(ReqwestError, "series_error", scan, cache)
    ELSE LooksUpLibrary(w, cfg, cache, d, book, scan, w.series,
             IF IsSuccess(w.series2.status)
             THEN UnwrapOr(w.series2.meta_title, "Untitled") ELSE "Untitled")

\* lines 332-541: set_activity.
set_activity(w, cfg, cache, d) ==
    LET scan == ScanPages(w, 0, ScanStart, << >>)
    IN IF scan.err # << >> THEN Fails(scan.err, "listing_failed", scan, cache)
       ELSE IF ~IsSome(scan.st.most_recent_book)
           THEN Clears(w, d, "no_book", scan, cache)
       ELSE LET book == Unwrap(scan.st.most_recent_book)
                last_modified ==
                    IF IsSome(book.readProgress)
                    THEN ParseLastModified(Unwrap(book.readProgress).lastModified)
                    ELSE None
            IN IF ~IsSome(last_modified)
                   THEN Clears(w, d, "no_stamp", scan, cache)
               ELSE IF IsTooOld(w.now, Unwrap(last_modified))
                   THEN Clears(w, d, "too_old", scan, cache)
               ELSE LooksUpSeries(w, cfg, cache, d, book, scan)

----------------------------------------------------------------------------
(* main: the error classifier of the poll loop (lines 181-234).            *)

\* lines 194, 203: the test made on an io::Error.
IsPipeIo(v) ==
    /\ v.type = "io"
    /\ \/ v.io_kind = "BrokenPipe"
       \/ v.os = Some(ERROR_NO_DATA)
       \/ v.os = Some(EPIPE)

\* lines 185-191: e.downcast_ref::<reqwest::Error>() with status 401.
IsAuthError(e) == e[1].type = "reqwest" /\ e[1].status = Some(UNAUTHORIZED)

\* lines 193-210: the boxed error, then its source chain.
IsPipeError(e) ==
    \/ IsPipeIo(e[1])
    \/ /\ ~IsPipeIo(e[1])
       /\ ~IsAuthError(e)
       /\ \E i \in 2..Len(e) : IsPipeIo(e[i])

\* lines 212-234: the branch taken for the error e of a cycle.
\* (faulty variant: every error that is no auth error starts the reconnect)
ClassifyMut(e) ==
    IF IsAuthError(e) THEN "auth"
    ELSE "pipe"
Classify(e) ==
    IF IsAuthError(e) THEN "auth"
    ELSE IF IsPipeError(e) THEN "pipe"
    ELSE "other"

----------------------------------------------------------------------------
(* The environment's answers.                                              *)

Response(status) == [kind |-> "response", status |-> status]
Transport == [kind |-> "transport", status |-> 0]

SeriesAnswer(kind, status, title, authors) ==
    [kind |-> kind, status |-> status, title |-> title, authors |-> authors]
SeriesOk == SeriesAnswer("response", 200, Some("Foo"), Some(<< "A. Author" >>))
SeriesUntitled == SeriesAnswer("response", 200, None, None)
SeriesAnswers ==
    { SeriesOk, SeriesUntitled,
      SeriesAnswer("response", NOT_FOUND, None, None),
      SeriesAnswer("transport", 0, None, None),
      SeriesAnswer("badjson", 200, None, None) }

Series2Answer(kind, status, meta_title) ==
    [kind |-> kind, status |-> status, meta_title |-> meta_title]
Series2Ok == Series2Answer("response", 200, Some("Bar"))
Series2Answers == { Series2Ok, Series2Answer("response", 500, None) }

LibraryAnswer(kind, status, name) == [kind |-> kind, status |-> status, name |-> name]
LibraryOk == LibraryAnswer("response", 200, Some("Manga"))
LibraryAnswers ==
    { LibraryOk,
      LibraryAnswer("response", 200, Some("Comics")),
      LibraryAnswer("response", NOT_FOUND, None),
      LibraryAnswer("transport", 0, None) }

ThumbOk == Response(200)
ThumbAnswers == { ThumbOk, Response(NOT_FOUND), Transport, [kind |-> "badbody", status |-> 200] }

UploadAnswer(kind, status, success, link) ==
    [kind |-> kind, status |-> status, success |-> success, link |-> link]
UploadOk(link) == UploadAnswer("response", 200, TRUE, link)
UploadAnswers ==
    { UploadOk("https://i.imgur.com/U1"),
      UploadAnswer("response", 200, FALSE, ""),
      UploadAnswer("response", 500, FALSE, "") }

IpcOutcomes == { "ok", "broken_pipe", "wrapped_pipe", "other" }

ListingFailure(page, kind, status) == Some([page |-> page, kind |-> kind, status |-> status])

World(books, pageSize, lastFlag, fail, series, series2, library, thumb, upload, ipc, http_source) ==
    [now |-> NowMs, books |-> books, pageSize |-> pageSize, lastFlag |-> lastFlag,
     fail |-> fail, series |-> series, series2 |-> series2, library |-> library,
     thumb |-> thumb, upload |-> upload, ipc |-> ipc, http_source |-> http_source]

\* Worlds that exercise the paged scan: any listing of up to MaxBooks books of
\* the pool, cut into pages of 1, 2 or MaxBooks books, with or without the
\* "last" flag, with or without a failing page.
ScanFailures ==
    { None, ListingFailure(0, "response", 500), ListingFailure(1, "response", UNAUTHORIZED),
      ListingFailure(1, "transport", 0), ListingFailure(0, "badjson", 200) }
ScanWorlds ==
    { World(b, ps, lf, f, SeriesOk, Series2Ok, LibraryOk, ThumbOk,
            UploadOk("https://i.imgur.com/U1"), "ok", "none") :
        b \in SeqsUpTo(BookPool, MaxBooks), ps \in { 1, 2, MaxBooks },
        lf \in BOOLEAN, f \in ScanFailures }

\* Worlds that exercise the lookups behind a listing of at most one book.
\* The second series answer matters only after an untitled first one, the
\* upload only after a thumbnail that was fetched.
SeriesPairs ==
    { << a, Series2Ok >> : a \in SeriesAnswers } \cup
    { << SeriesUntitled, b >> : b \in Series2Answers }
CoverPairs ==
    { << t, UploadOk("https://i.imgur.com/U1") >> : t \in ThumbAnswers } \cup
    { << ThumbOk, u >> : u \in UploadAnswers }
LookupWorlds ==
    { World(b, 1, TRUE, None, sp[1], sp[2], l, cp[1], cp[2], ipc, src) :
        b \in { << >> } \cup { << k >> : k \in LookupBooks },
        sp \in SeriesPairs, l \in LibraryAnswers, cp \in CoverPairs,
        ipc \in IpcOutcomes, src \in { "none", "pipe" } }

\* Worlds the poll loop runs through.
BaseWorld ==
    World(<< BookF1 >>, 1, TRUE, None, SeriesOk, Series2Ok, LibraryOk, ThumbOk,
          UploadOk("https://i.imgur.com/U1"), "ok", "none")
LoopWorlds ==
    { BaseWorld,
      [BaseWorld EXCEPT !.books = << >>],
      [BaseWorld EXCEPT !.books = << BookS1 >>],
      [BaseWorld EXCEPT !.books = << BookF2 >>,
                        !.upload = UploadOk("https://i.imgur.com/U2")],
      [BaseWorld EXCEPT !.upload = UploadOk("https://i.imgur.com/U2")],
      [BaseWorld EXCEPT !.upload = UploadAnswer("response", 500, FALSE, "")],
      [BaseWorld EXCEPT !.thumb = Response(NOT_FOUND)],
      [BaseWorld EXCEPT !.series = SeriesAnswer("response", NOT_FOUND, None, None)],
      [BaseWorld EXCEPT !.fail = ListingFailure(0, "response", UNAUTHORIZED)],
      [BaseWorld EXCEPT !.fail = ListingFailure(0, "response", 500)],
      [BaseWorld EXCEPT !.fail = ListingFailure(0, "transport", 0),
                        !.http_source = "pipe"],
      [BaseWorld EXCEPT !.books = << BookS1, BookF1 >>,
                        !.fail = ListingFailure(1, "response", 500)],
      [BaseWorld EXCEPT !.ipc = "broken_pipe"],
      [BaseWorld EXCEPT !.ipc = "wrapped_pipe", !.books = << >>],
      [BaseWorld EXCEPT !.ipc = "other"] }

\* Config: use_imgur_cover, imgur_client_id, exclude_libraries.
Config(use_imgur_cover, imgur_client_id, exclude_libraries) ==
    [use_imgur_cover |-> use_imgur_cover, imgur_client_id |-> imgur_client_id,
     exclude_libraries |-> exclude_libraries]
Configs ==
    { Config(None, Some("imgur-id"), None),
      Config(Some(TRUE), Some("imgur-id"), Some(<< "manga" >>)),
      Config(Some(FALSE), Some("imgur-id"), None),
      Config(None, None, Some(<< "MANGA", "Other" >>)) }

RehostingOn(cfg) == UnwrapOr(cfg.use_imgur_cover, TRUE) /\ IsSome(cfg.imgur_client_id)

----------------------------------------------------------------------------
(* main: the poll loop (lines 134-310).                                    *)

\* The record of a cycle, before any cycle has run.  Besides what
\* set_activity did it holds the branch of the classifier (class), the time
\* of the cycle (at), the world it met, the cache and the handle it started
\* with, the channel operations of the iteration before it (prev_log), the
\* presence before the cycle and the time of the cycle before it (prev_at).
NoCycle ==
    [err |-> << >>, branch |-> "none", ipc |-> "none", ipc_ok |-> FALSE,
     calls |-> << >>, presence_before |-> None, prev_at |-> None,
     activity |-> None, author_text |-> None, selected |-> None, found |-> FALSE,
     pages |-> << >>, listing_status |-> None, cache |-> {}, cover_url |-> None,
     thumb_calls |-> 0, upload_calls |-> 0,
     class |-> "none", at |-> 0, cache_before |-> {}, world |-> None,
     handle |-> None, prev_log |-> << >>]

\* lines 142-163: the state when the loop is entered, discord.connect()
\* having succeeded.
InitLoop ==
    /\ pc = "top"
    /\ clock = 0
    /\ last_page_update = 0
    /\ discord = [id |-> 1, open |-> TRUE]
    /\ next_id = 2
    /\ imgur_cache = {}
    /\ presence = None
    /\ last = NoCycle
    /\ cycles = 0
    /\ log = << >>

Init ==
    /\ InitLoop
    /\ config \in Configs
    /\ world \in LoopWorlds

\* lines 167-168.  last_full_check is assigned once, before the loop.
do_full_check == clock >= full_check_interval
do_page_update == clock - last_page_update >= page_update_interval

\* lines 170-243: a full check.  set_activity runs; its error, if any, is
\* classified; an auth error continues the loop at once, a pipe error
\* starts the reconnect, anything else goes on to the sleep of line 308.
\* playback_state, current_series, timing_info, last_series_id and
\* last_series_time are written but never read, and are left out.  Time
\* passes only in the sleeps; the calls of a cycle take none.
FullCheck ==
    /\ pc = "top"
    /\ do_full_check
    /\ cycles < MaxCycles
    /\ LET r == set_activity(world, config, imgur_cache, discord)
           class == IF r.err = << >> THEN "ok" ELSE Classify(r.err)
       IN /\ imgur_cache' = r.cache
          /\ presence' = IF r.ipc_ok
                         THEN (IF r.ipc = "set" THEN r.activity ELSE None)
                         ELSE presence
          /\ last' = [k \in DOMAIN NoCycle |->
                        CASE k = "class" -> class
                          [] k = "at" -> clock
                          [] k = "cache_before" -> imgur_cache
                          [] k = "world" -> Some(world)
                          [] k = "handle" -> Some(discord)
                          [] k = "prev_log" -> log
                          [] k = "presence_before" -> presence
                          [] k = "prev_at" -> IF cycles = 0 THEN None
                                              ELSE Some(last.at)
                          [] OTHER -> r[k]]
          /\ log' = [i \in 1..Len(r.calls) |->
                       [op |-> r.calls[i], chan |-> discord.id, ok |-> r.ipc_ok]]
          /\ pc' = CASE class = "auth" -> "top"
                     [] class = "pipe" -> "close"
                     [] OTHER -> "sleep"
    /\ cycles' = cycles + 1
    /\ UNCHANGED << clock, last_page_update, discord, next_id, config, world >>

\* lines 157-159: current_book_id, current_series_id, current_series_title.
\* They are declared `mut` but no statement assigns them.
\* (faulty variant: they hold what a full check displayed)
currentMut ==
    [book_id |-> Some("F1"), series_id |-> Some("S1"), series_title |-> Some("Foo")]
current == [book_id |-> None, series_id |-> None, series_title |-> None]

\* What the page update did: the error its `?` returned from main, its
\* calls on the channel, the activity it set, the cache it left and the
\* number of its HTTP requests.
PageResult(err, calls, ipc_ok, activity, cache, http_calls) ==
    [err |-> err, calls |-> calls, ipc_ok |-> ipc_ok, activity |-> activity,
     cache |-> cache, http_calls |-> http_calls]

\* lines 246-252: GET /api/v1/books/{book_id}.  The server answers with
\* the book of its listing, with 404 when it has none of that id, and not
\* at all when the listing request fails in transport.
BookById(w, book_id) ==
    IF IsSome(w.fail) /\ Unwrap(w.fail).kind = "transport"
        THEN [kind |-> "transport", status |-> 0, book |-> None]
    ELSE IF \E i \in 1..Len(w.books) : w.books[i].id = book_id
        THEN [kind |-> "response", status |-> 200,
              book |-> Some(w.books[CHOOSE i \in 1..Len(w.books) : w.books[i].id = book_id])]
    ELSE [kind |-> "response", status |-> NOT_FOUND, book |-> None]

\* lines 245-304: the body of the page update.  It runs only when the three
\* current_* variables are Some; each `?` in it returns from main.  The
\* series title is the title of the series body, else its metadata.title
\* (lines 279-283; w.series2.meta_title is the metadata.title the series
\* resource carries), else "Untitled".
page_update(w, cfg, cache, d) ==
    IF ~(IsSome(current.book_id) /\ IsSome(current.series_id)
            /\ IsSome(current.series_title))
        THEN PageResult(<< >>, << >>, FALSE, None, cache, 0)
    ELSE LET response == BookById(w, Unwrap(current.book_id))
         IN IF response.kind = "transport"
                THEN PageResult(TransportError(w), << >>, FALSE, None, cache, 1)
            ELSE IF ~IsSuccess(response.status)
                THEN PageResult(<< >>, << >>, FALSE, None, cache, 1)
            ELSE IF w.series.kind = "transport"
                THEN PageResult(TransportError(w), << >>, FALSE, None, cache, 2)
            ELSE IF IsSuccess(w.series.status) /\ w.series.kind = "badjson"
                THEN PageResult(ReqwestError, << >>, FALSE, None, cache, 2)
            ELSE LET book == Unwrap(response.book)
                     page_num == IF IsSome(book.readProgress)
                                 THEN PageNum(Unwrap(book.readProgress).page)
                                 ELSE None
                     series_title == IF IsSuccess(w.series.status)
                                     THEN (IF IsSome(w.series.title)
                                           THEN Unwrap(w.series.title)
                                           ELSE UnwrapOr(w.series2.meta_title, "Untitled"))
                                     ELSE "Untitled"
                     cover == get_komga_cover_path(cfg, Unwrap(current.series_id), cache, w)
                     http_calls == 2 + cover.thumb_calls + cover.upload_calls
                     final_activity ==
                         [details |-> StateText(book, page_num), state |-> "Komga-RPC",
                          large_image |-> cover.url,
                          large_text |-> IF IsSome(cover.url) THEN Some(series_title)
                                         ELSE None]
                     outcome == ChannelCall(w, d)
                 IN IF cover.err # << >>
                    THEN PageResult(cover.err, << >>, FALSE, None, cover.cache, http_calls)
                    ELSE PageResult(IF outcome = "ok" THEN << >> ELSE IpcError(outcome),
                                    << "set" >>, outcome = "ok", Some(final_activity),
                                    cover.cache, http_calls)

\* lines 244-306: the page update.  An error of the body returns from main
\* (pc = "returned"); otherwise last_page_update is reset, whether the body
\* ran or not.
PageUpdate ==
    /\ pc = "top"
    /\ ~do_full_check
    /\ do_page_update
    /\ LET r == page_update(world, config, imgur_cache, discord)
       IN /\ imgur_cache' = r.cache
          /\ presence' = IF r.ipc_ok THEN r.activity ELSE presence
          /\ log' = log \o [i \in 1..Len(r.calls) |->
                              [op |-> r.calls[i], chan |-> discord.id, ok |-> r.ipc_ok]]
          /\ last_page_update' = IF r.err = << >> THEN clock ELSE last_page_update
          /\ pc' = IF r.err = << >> THEN "sleep" ELSE "returned"
    /\ UNCHANGED << clock, discord, next_id, config, world, last, cycles >>

\* Neither branch of lines 170 and 244.
NoUpdate ==
    /\ pc = "top"
    /\ ~do_full_check
    /\ ~do_page_update
    /\ pc' = "sleep"
    /\ UNCHANGED << clock, last_page_update, discord, next_id, imgur_cache,
                    config, world, presence, last, cycles, log >>

\* lines 219-222: discord.close(), whose error is only logged.  After a
\* close that fails the handle may or may not still hold its socket.
\* (faulty variant: after the close the loop continues with the next
\* cycle, without the cooldown and the connect)
CloseOldMut ==
    /\ pc = "close"
    /\ \E ok \in BOOLEAN, still_open \in BOOLEAN :
          /\ ok => ~still_open
          /\ discord' = [discord EXCEPT !.open = still_open]
          /\ log' = Append(log, [op |-> "close", chan |-> discord.id, ok |-> ok])
    /\ pc' = "top"
    /\ UNCHANGED << clock, last_page_update, next_id, imgur_cache, config,
                    world, presence, last, cycles >>
CloseOld ==
    /\ pc = "close"
    /\ \E ok \in BOOLEAN, still_open \in BOOLEAN :
          /\ ok => ~still_open
          /\ discord' = [discord EXCEPT !.open = still_open]
          /\ log' = Append(log, [op |-> "close", chan |-> discord.id, ok |-> ok])
    /\ pc' = "cooldown"
    /\ UNCHANGED << clock, last_page_update, next_id, imgur_cache, config,
                    world, presence, last, cycles >>

\* line 223: the cooldown.
Cooldown ==
    /\ pc = "cooldown"
    /\ clock + ReconnectCooldown <= MaxClock
    /\ clock' = clock + ReconnectCooldown
    /\ log' = Append(log, [op |-> "cooldown", chan |-> discord.id, ok |-> TRUE])
    /\ pc' = "connect"
    /\ UNCHANGED << last_page_update, discord, next_id, imgur_cache, config,
                    world, presence, last, cycles >>

\* lines 224-230: a new client connects; it replaces the handle only when
\* connect succeeds.
\* (faulty variant: the new client replaces the handle even when its
\* connect failed)
ReconnectReplacesMut ==
    /\ pc = "connect"
    /\ \E ok \in BOOLEAN :
          /\ discord' = [id |-> next_id, open |-> ok]
          /\ log' = Append(log, [op |-> "connect", chan |-> next_id, ok |-> ok])
    /\ next_id' = next_id + 1
    /\ pc' = "sleep"
    /\ UNCHANGED << clock, last_page_update, imgur_cache, config, world,
                    presence, last, cycles >>
\* (faulty variant: the new client is dropped even when it connected)
ReconnectMut ==
    /\ pc = "connect"
    /\ \E ok \in BOOLEAN :
          /\ discord' = discord
          /\ log' = Append(log, [op |-> "connect", chan |-> next_id, ok |-> ok])
    /\ next_id' = next_id + 1
    /\ pc' = "sleep"
    /\ UNCHANGED << clock, last_page_update, imgur_cache, config, world,
                    presence, last, cycles >>
Reconnect ==
    /\ pc = "connect"
    /\ \E ok \in BOOLEAN :
          /\ discord' = IF ok THEN [id |-> next_id, open |-> TRUE] ELSE discord
          /\ log' = Append(log, [op |-> "connect", chan |-> next_id, ok |-> ok])
    /\ next_id' = next_id + 1
    /\ pc' = "sleep"
    /\ UNCHANGED << clock, last_page_update, imgur_cache, config, world,
                    presence, last, cycles >>

\* line 308: the sleep that ends an iteration.  Meanwhile the environment
\* moves on: the next cycle meets any world.
Sleep ==
    /\ pc = "sleep"
    /\ clock + LoopSleep <= MaxClock
    /\ clock' = clock + LoopSleep
    /\ world' \in LoopWorlds
    /\ pc' = "top"
    /\ UNCHANGED << last_page_update, discord, next_id, imgur_cache, config,
                    presence, last, cycles, log >>

Next ==
    \/ FullCheck
    \/ PageUpdate
    \/ NoUpdate
    \/ CloseOld
    \/ Cooldown
    \/ Reconnect
    \/ Sleep

Spec == Init /\ [][Next]_vars

----------------------------------------------------------------------------
(* One resolution cycle on any input: the loop at its first full check,    *)
(* facing any world of the scan and lookup families, with a cover cache    *)
(* that earlier cycles may have filled.                                    *)

CachesOf(cfg) ==
    IF RehostingOn(cfg)
    THEN { {}, { << CacheKey("S1"), "https://i.imgur.com/U0" >> } }
    ELSE { {} }

InitResolve ==
    /\ pc = "top"
    /\ clock = full_check_interval
    /\ last_page_update = 15
    /\ discord = [id |-> 1, open |-> TRUE]
    /\ next_id = 2
    /\ \/ /\ world \in ScanWorlds
          /\ config = Config(None, Some("imgur-id"), None)
          /\ imgur_cache = {}
       \/ /\ world \in LookupWorlds
          /\ config \in Configs
          /\ imgur_cache \in CachesOf(config)
    /\ presence = None
    /\ last = NoCycle
    /\ cycles = 0
    /\ log = << >>

ResolveOnce == cycles = 0 /\ FullCheck

SpecResolve == InitResolve /\ [][ResolveOnce]_vars

----------------------------------------------------------------------------
(* Properties.  `last` describes the latest resolution cycle; the           *)
(* predicates below read the listing that cycle met.                       *)

Ran == cycles >= 1
Met == Unwrap(last.world)
Handle == Unwrap(last.handle)
ListingOk == Ran /\ last.branch # "listing_failed"

\* An in-progress candidate: readProgress with completed == false.
InProgress(b) ==
    IsSome(b.readProgress) /\ Unwrap(b.readProgress).completed = Some(FALSE)
\* ... whose lastModified is an RFC 3339 date.
Stamped(b) == InProgress(b) /\ Unwrap(b.readProgress).lastModified.kind = "rfc3339"
\* The instant of a stamped candidate and its age at resolution time, in ms.
InstantOf(b) ==
    Unwrap(b.readProgress).lastModified.wall - Unwrap(b.readProgress).lastModified.offset
AgeMs(b) == Met.now - InstantOf(b)
WindowMs == FreshnessSecs * 1000
FreshCandidate(b) == Stamped(b) /\ AgeMs(b) < WindowMs
Listed == { Met.books[i] : i \in 1..Len(Met.books) }
GatePassed ==
    ListingOk /\ last.branch \notin { "no_book", "no_stamp", "too_old" }

\* C1: the freshness gate.  When the book the scan selected is 300 s old or
\* older the cycle calls clear-activity and builds no activity; when it is
\* younger than 300 s the cycle passes the gate.
C1_FreshnessGate ==
    (ListingOk /\ IsSome(last.selected) /\ Stamped(Unwrap(last.selected))) =>
        LET b == Unwrap(last.selected)
        IN /\ AgeMs(b) >= WindowMs =>
                 /\ last.branch = "too_old"
                 /\ last.ipc = "clear"
                 /\ last.activity = None
           /\ AgeMs(b) < WindowMs => GatePassed

\* The selected book is stale, it is the most recent in-progress book of a
\* listing of several books, and the cycle cleared the presence.
C1_Witness ==
    /\ ListingOk /\ IsSome(last.selected) /\ Len(Met.books) >= 2
    /\ AgeMs(Unwrap(last.selected)) = WindowMs
    /\ \A b \in Listed : Stamped(b) => InstantOf(b) <= InstantOf(Unwrap(last.selected))
    /\ last.ipc = "clear" /\ last.ipc_ok /\ presence = None

\* C2: latest wins.  Whenever the listing holds two candidates inside the
\* freshness window, the selected book is a fresh candidate that no fresh
\* candidate of the listing is more recent than.
C2_LatestWins ==
    (ListingOk /\ \E b1, b2 \in Listed :
        FreshCandidate(b1) /\ FreshCandidate(b2) /\ InstantOf(b1) < InstantOf(b2)) =>
        /\ IsSome(last.selected)
        /\ \A b \in Listed :
              FreshCandidate(b) => InstantOf(b) <= InstantOf(Unwrap(last.selected))

\* C3: a candidate without a parseable lastModified is never the selected
\* book when another in-progress candidate of the listing has a valid one;
\* and when no in-progress candidate has a parseable lastModified the cycle
\* calls clear-activity.
C3_NoStampNeverSelected ==
    ListingOk =>
        /\ (IsSome(last.selected) /\ \E b \in Listed : Stamped(b)) =>
               Stamped(Unwrap(last.selected))
        /\ (~ \E b \in Listed : Stamped(b)) =>
               /\ last.ipc = "clear"
               /\ last.activity = None

\* A candidate without a valid timestamp precedes a stamped one in the
\* listing, and the stamped one is selected.
C3_Witness ==
    /\ ListingOk /\ Len(Met.books) >= 2
    /\ InProgress(Met.books[1]) /\ ~Stamped(Met.books[1])
    /\ Stamped(Met.books[2])
    /\ last.selected = Some(Met.books[2])

\* No book of the listing is in progress: the listing is empty, or every
\* book is completed, has no readProgress or has no completed flag.
NothingInProgress == \A b \in Listed : ~InProgress(b)

\* C4 as stated: on a successful listing with nothing in progress,
\* set_activity clears the presence and returns Ok, and the classifier is
\* not entered.
C4_AbsenceIsOk ==
    (ListingOk /\ NothingInProgress) =>
        /\ last.ipc = "clear"
        /\ last.err = << >>
        /\ last.class = "ok"

\* C4 as amended: on a successful listing with nothing in progress,
\* set_activity calls clear-activity and nothing else; it returns Ok, and
\* the classifier is not entered, exactly when that call succeeds; when the
\* call fails, its error is what set_activity returns.
C4_AbsenceClears ==
    (ListingOk /\ NothingInProgress) =>
        /\ last.branch = "no_book"
        /\ last.ipc = "clear"
        /\ last.activity = None
        /\ last.thumb_calls = 0 /\ last.upload_calls = 0
        /\ last.ipc_ok <=> (Met.ipc = "ok" /\ Handle.open)
        /\ last.ipc_ok => (last.err = << >> /\ last.class = "ok" /\ presence = None)
        /\ ~last.ipc_ok => last.err = IpcError(ChannelCall(Met, Handle))

\* A listing of several books, none in progress, one of them without the
\* completed flag, was cleared with Ok.
C4_Witness ==
    /\ ListingOk /\ NothingInProgress /\ Len(Met.books) >= 2
    /\ \E b \in Listed : IsSome(b.readProgress) /\ Unwrap(b.readProgress).completed = None
    /\ last.ipc = "clear" /\ last.err = << >>

\* The name of the library that owns the selected book, when the library
\* lookup gave one.
OwningLibrary ==
    IF /\ GatePassed /\ IsSome(last.selected)
       /\ Unwrap(last.selected).libraryId # ""
       /\ Met.library.kind = "response" /\ IsSuccess(Met.library.status)
    THEN Met.library.name ELSE None
Excluded(name) ==
    /\ IsSome(config.exclude_libraries)
    /\ \E i \in 1..Len(Unwrap(config.exclude_libraries)) :
          EqIgnoreAsciiCase(Unwrap(config.exclude_libraries)[i], name)

\* C5: exclusion.  When the owning library of the selected book matches an
\* entry of exclude_libraries, ignoring case, the cycle never calls
\* set-activity.
C5_Exclusion ==
    (Ran /\ IsSome(OwningLibrary) /\ Excluded(Unwrap(OwningLibrary))) =>
        last.ipc # "set"

\* The cycle ran the cover resolver, and what the cache held for the
\* selected book's series when it did.
CoverResolved == Ran /\ last.branch \in { "pushed", "cover_error" }
CachedBefore ==
    CacheGet(last.cache_before, CacheKey(Unwrap(last.selected).seriesId))

\* C6: cover cache hit.  A cover resolution for a series whose URL an
\* earlier resolution cached makes no thumbnail request and no upload,
\* returns the cached URL and leaves the cache as it was.
C6_CacheHit ==
    (CoverResolved /\ IsSome(CachedBefore)) =>
        /\ last.thumb_calls = 0
        /\ last.upload_calls = 0
        /\ last.cover_url = CachedBefore
        /\ last.cache = last.cache_before
        /\ IsSome(last.activity) => Unwrap(last.activity).large_image = CachedBefore

\* A later cycle resolves the cover of a cached series while the server
\* would serve the thumbnail and the image host would answer another URL.
C6_Witness ==
    /\ cycles >= 2 /\ CoverResolved /\ IsSome(CachedBefore)
    /\ Met.thumb = ThumbOk
    /\ Met.upload.kind = "response" /\ Met.upload.success
    /\ Met.upload.link # Unwrap(CachedBefore)
    /\ last.ipc_ok /\ presence = last.activity

\* The channel operations of the current iteration that follow the
\* set-activity / clear-activity of the cycle.
ReconnectSteps ==
    IF log # << >> /\ log[1].op \in { "set", "clear" } THEN Tail(log) ELSE log
OpsOf(steps) == [i \in 1..Len(steps) |-> steps[i].op]
FullReconnect == << "close", "cooldown", "connect" >>
\* The iteration before the latest cycle ended with a connect that succeeded.
Reconnected ==
    /\ cycles >= 2 /\ last.prev_log # << >>
    /\ last.prev_log[Len(last.prev_log)].op = "connect"
    /\ last.prev_log[Len(last.prev_log)].ok

\* C7 as stated: after a cycle that failed with a pipe-classified error the
\* loop has closed the old channel, waited and connected a new channel, and
\* the channel call of the next cycle runs on the new channel and succeeds.
C7_ReconnectSucceeds ==
    /\ (Ran /\ last.class = "pipe" /\ pc \in { "sleep", "top" }) =>
           /\ OpsOf(ReconnectSteps) = FullReconnect
           /\ discord.open /\ discord.id # Handle.id
    /\ (cycles >= 2 /\ last.prev_log # << >> /\ last.ipc # "none"
        /\ last.prev_log[Len(last.prev_log)].op = "connect") =>
           /\ Handle.id = last.prev_log[Len(last.prev_log)].chan
           /\ last.ipc_ok

\* C7 as amended: after a cycle that failed with a pipe-classified error the
\* loop does not take the auth branch; it closes the old channel, waits the
\* cooldown and tries to connect a new channel, in this order, and resumes.
\* When the connect succeeds the new channel is the handle, and the channel
\* call of the next cycle runs on it and succeeds when the peer answers;
\* when the connect fails the old handle is kept.
C7_ReconnectProtocol ==
    /\ (Ran /\ last.class = "pipe") =>
           LET steps == ReconnectSteps
           IN /\ << pc, OpsOf(steps) >> \in
                    { << "close", << >> >>,
                      << "cooldown", << "close" >> >>,
                      << "connect", << "close", "cooldown" >> >>,
                      << "sleep", FullReconnect >>,
                      << "top", FullReconnect >> }
              /\ Len(steps) >= 1 => steps[1].chan = Handle.id
              /\ Len(steps) >= 2 => clock >= last.at + ReconnectCooldown
              /\ Len(steps) = 3 =>
                    /\ steps[3].chan # Handle.id
                    /\ steps[3].ok => discord = [id |-> steps[3].chan, open |-> TRUE]
                    /\ ~steps[3].ok => discord.id = Handle.id
    /\ (Reconnected /\ last.ipc # "none") =>
           /\ Handle.id = last.prev_log[Len(last.prev_log)].chan
           /\ Handle.open
           /\ last.ipc_ok <=> Met.ipc = "ok"

\* A set-activity failed with a broken pipe, the loop closed, waited and
\* connected channel 2, and the next cycle's set-activity succeeded on it.
C7_Witness ==
    /\ Reconnected /\ Len(last.prev_log) = 4
    /\ last.prev_log[1].op = "set" /\ ~last.prev_log[1].ok
    /\ OpsOf(Tail(last.prev_log)) = FullReconnect
    /\ last.ipc = "set" /\ last.ipc_ok /\ Handle.id = 2
    /\ log[1].chan = 2

\* C8: a 401 of the primary listing is classified as auth-error.
C8_AuthClassified ==
    (Ran /\ last.branch = "listing_failed"
         /\ last.listing_status = Some(UNAUTHORIZED)) =>
        last.class = "auth"

\* The cycle asked for a listing page that the server answered with a
\* non-2xx status.
FailedPageAsked ==
    /\ Ran /\ IsSome(Met.fail)
    /\ Unwrap(Met.fail).kind = "response" /\ ~IsSuccess(Unwrap(Met.fail).status)
    /\ \E i \in 1..Len(last.pages) : last.pages[i] = Unwrap(Met.fail).page

\* C9: a non-2xx status on a page of the primary listing makes set_activity
\* return an error without a set-activity or clear-activity call and with
\* the cover cache as it was; the loop leaves the channel handle alone and
\* goes on to the next tick, where the resolution runs again.
C9_ListingFailure ==
    FailedPageAsked =>
        /\ last.branch = "listing_failed" /\ last.err # << >>
        /\ last.listing_status = Some(Unwrap(Met.fail).status)
        /\ last.ipc = "none" /\ last.activity = None
        /\ last.thumb_calls = 0 /\ last.upload_calls = 0
        /\ last.cache = last.cache_before /\ imgur_cache = last.cache_before
        /\ discord = Handle /\ log = << >>
        /\ pc \in { "sleep", "top" }
        /\ pc = "top" => do_full_check

\* The second page of a listing failed with 500 while an activity was
\* displayed and a cover was cached.
C9_Witness ==
    /\ FailedPageAsked /\ Unwrap(Met.fail).page = 1
    /\ imgur_cache # {} /\ IsSome(presence)
    /\ pc = "top"

\* A lookup behind the selected book failed: the series detail, the library
\* detail or the thumbnail.
LookupFailed(answer) ==
    answer.kind = "transport" \/ (answer.kind = "response" /\ ~IsSuccess(answer.status))
SecondaryFailed ==
    \/ LookupFailed(Met.series)
    \/ Unwrap(last.selected).libraryId # "" /\ LookupFailed(Met.library)
    \/ RehostingOn(config) /\ ~IsSome(CachedBefore) /\ LookupFailed(Met.thumb)

\* C10: a failed secondary lookup never fails the cycle and never
\* suppresses the activity: set-activity is still called for the fresh book
\* and set_activity returns what that call returns.
C10_SecondaryDegrades ==
    (GatePassed /\ SecondaryFailed) =>
        /\ last.ipc = "set"
        /\ last.ipc_ok <=> last.err = << >>

----------------------------------------------------------------------------
(* Cover resolution.                                                       *)

\* The cover was not cached and one of its failure modes happened: the
\* thumbnail request failed or was answered non-2xx, its body could not be
\* read, or the upload failed or was answered unsuccessfully.
UploadFailed ==
    \/ LookupFailed(Met.upload)
    \/ Met.upload.kind = "badjson"
    \/ ~Met.upload.success
CoverFailed ==
    /\ CoverResolved /\ RehostingOn(config) /\ ~IsSome(CachedBefore)
    /\ \/ LookupFailed(Met.thumb)
       \/ Met.thumb.kind = "badbody"
       \/ Met.thumb = ThumbOk /\ UploadFailed

\* C11: whatever the failure mode of the cover resolution, the resolver
\* yields no cover without raising, and the cycle still calls set-activity
\* with an activity that carries no image.
C11_CoverFailureNonFatal ==
    CoverFailed =>
        /\ last.cover_url = None
        /\ last.branch = "pushed" /\ last.ipc = "set"
        /\ IsSome(last.activity) /\ Unwrap(last.activity).large_image = None
        /\ last.ipc_ok <=> last.err = << >>

----------------------------------------------------------------------------
(* The presence after a cycle.                                             *)

\* The cycle ended without a current-reading answer because a failure was
\* propagated / because set_activity decided that nothing is being read.
FailureBranches == { "listing_failed", "series_error", "library_error", "cover_error" }
IdleBranches == { "no_book", "no_stamp", "too_old", "series_failed" }
NoAnswer == Ran /\ last.branch # "pushed"

\* C12 (as stated): after every cycle that did not establish a
\* current-reading answer, a propagated failure included, the presence
\* shown is Idle.
C12_NoStaleStatus ==
    NoAnswer => presence = None

\* C12 (amended): a cycle in which set_activity decided that nothing is
\* being read calls clear-activity, and when that call succeeds the presence
\* is Idle; a cycle that ended in a propagated failure made no call on the
\* channel and left the presence as it was before the cycle.
C12_IdleOrUnchanged ==
    /\ (Ran /\ last.branch \in IdleBranches) =>
          /\ last.calls = << "clear" >>
          /\ presence = IF last.ipc_ok THEN None ELSE last.presence_before
    /\ (Ran /\ last.branch \in FailureBranches) =>
          /\ last.err # << >> /\ last.calls = << >>
          /\ presence = last.presence_before

\* An activity was displayed and the next cycle's listing failed: the
\* activity is still displayed.
C12_Witness ==
    /\ Ran /\ last.branch = "listing_failed"
    /\ IsSome(last.presence_before) /\ presence = last.presence_before
    /\ pc = "sleep"

\* The set-activity and clear-activity calls among the channel operations
\* of the current iteration.
PresenceCalls == SelectSeq(log, LAMBDA e : e.op \in { "set", "clear" })

\* C13: a cycle makes at most one call on the channel, a set-activity or a
\* clear-activity and never both; a pushed activity is a single set, a
\* decision that nothing is being read a single clear.
C13_SetXorClear ==
    Ran =>
        /\ last.calls \in { << >>, << "set" >>, << "clear" >> }
        /\ Len(PresenceCalls) <= 1
        /\ last.branch = "pushed" => last.calls = << "set" >>
        /\ last.branch \in IdleBranches => last.calls = << "clear" >>

\* A fresh book was selected while an activity was displayed, the series
\* lookup was answered non-2xx, and the cycle cleared and set nothing.
C13_Witness ==
    /\ Ran /\ last.branch = "series_failed" /\ last.found
    /\ IsSome(last.presence_before) /\ presence = None
    /\ OpsOf(log) = << "clear" >>

----------------------------------------------------------------------------
(* Presentation fields.                                                    *)

\* A cycle reached the set-activity call.
Pushed == Ran /\ last.branch = "pushed"

\* The title the series answers give: title, else metadata.title of the
\* second fetch, else "Untitled".
TitleOf(w) ==
    IF IsSome(w.series.title) THEN Unwrap(w.series.title)
    ELSE IF IsSuccess(w.series2.status) /\ IsSome(w.series2.meta_title)
         THEN Unwrap(w.series2.meta_title)
    ELSE "Untitled"

\* C14: a pushed activity carries the series title as its details line
\* and, as its second line, the author text of the chain book authors,
\* series authors, library name, "Unknown Author".
C14_PresentationFields ==
    Pushed =>
        /\ Unwrap(last.activity).details = TitleOf(Met)
        /\ Unwrap(last.activity).state = Unwrap(last.author_text)

----------------------------------------------------------------------------
(* The reconnect and the cadence of the loop.                              *)

\* An io error of kind BrokenPipe or with the OS error 32 or 232.
BrokenPipeValue(v) ==
    /\ v.type = "io"
    /\ v.io_kind = "BrokenPipe" \/ v.os \in { Some(EPIPE), Some(ERROR_NO_DATA) }

\* lines 193-210: a broken pipe on the error, or, when the error is none
\* and is no reqwest error with status 401 (line 199), anywhere in its
\* source chain.
PipeInChain(e) ==
    \/ BrokenPipeValue(e[1])
    \/ /\ ~BrokenPipeValue(e[1])
       /\ ~(e[1].type = "reqwest" /\ e[1].status = Some(UNAUTHORIZED))
       /\ \E i \in 2..Len(e) : BrokenPipeValue(e[i])

\* The loop is closing, waiting or connecting, or has done so since the
\* latest cycle, or holds another handle than the latest cycle started with.
Reconnecting ==
    \/ pc \in { "close", "cooldown", "connect" }
    \/ \E i \in 1..Len(log) : log[i].op \in { "close", "cooldown", "connect" }
    \/ Ran /\ discord # Handle

\* C15: the loop closes the channel, waits and connects a new one only in
\* an iteration whose cycle failed with an error classified as pipe error,
\* a broken pipe being on the error or in its source chain; before the
\* first cycle, after a successful cycle and after any other failure the
\* handle is the one the cycle started with and nothing was closed or
\* connected.
C15_ReconnectOnlyOnPipe ==
    /\ ~Ran => discord = [id |-> 1, open |-> TRUE] /\ log = << >>
    /\ Reconnecting =>
          /\ Ran /\ last.class = "pipe"
          /\ last.err # << >> /\ PipeInChain(last.err)

\* A clear-activity failed with an error whose source is a broken pipe, and
\* the loop closed the channel, waited and holds a new, open handle.
C15_Witness ==
    /\ Ran /\ last.calls = << "clear" >> /\ ~last.ipc_ok
    /\ ~PipeInChain(<< last.err[1] >>) /\ PipeInChain(last.err)
    /\ OpsOf(ReconnectSteps) = FullReconnect
    /\ discord.id # Handle.id /\ discord.open
    /\ pc = "sleep"

\* C16: two consecutive full cycles are separated by the inter-tick
\* interval: full_check_interval seconds, and in no reading of the stated
\* range less than half of it.
C16_TickCadence ==
    (Ran /\ IsSome(last.prev_at)) =>
        last.at - Unwrap(last.prev_at) >= full_check_interval \div 2

\* C17: the loop begins with a resolution attempt: no waiting period
\* starts and no time passes before the first cycle has run.
C17_StartsWithCycle ==
    (pc = "sleep" \/ clock > 0) => Ran

\* The handling of the latest cycle is complete: a cycle classified as pipe
\* error was followed by the close, the cooldown and the connect, any other
\* cycle by nothing but its own call on the channel.
HandlingComplete ==
    Ran => IF last.class = "pipe" THEN OpsOf(ReconnectSteps) = FullReconnect
           ELSE ReconnectSteps = << >>

\* C18: cycles do not overlap.  A cycle starts only at the top of the
\* loop, after the presence update or the failure handling (close,
\* cooldown, connect) of the cycle before it is complete; the presence and
\* the cover cache are written only by a cycle, to what that cycle
\* resolved, and the handle only by the close and the connect of the loop.
C18_StrictSequencing ==
    [][ /\ cycles' # cycles =>
              /\ cycles' = cycles + 1
              /\ pc = "top" /\ HandlingComplete
        /\ (presence' # presence \/ imgur_cache' # imgur_cache) =>
              /\ cycles' = cycles + 1
              /\ presence' \in { presence, last'.activity, None }
              /\ imgur_cache' = last'.cache
        /\ discord' # discord =>
              /\ pc \in { "close", "connect" } /\ cycles' = cycles
      ]_vars

\* A cycle ran after the failure handling of the cycle before it, whose
\* connect had failed: it started when the cooldown and the sleep were over.
C18_Witness ==
    /\ cycles >= 2 /\ Len(last.prev_log) >= 3
    /\ last.prev_log[Len(last.prev_log)].op = "connect"
    /\ ~last.prev_log[Len(last.prev_log)].ok
    /\ last.at - Unwrap(last.prev_at) = ReconnectCooldown + LoopSleep
    /\ last.calls # << >>

----------------------------------------------------------------------------
(* The cover cache and the source of the cover.                            *)

\* The upload of a world answered with success and a link.
UploadSucceeded(w) ==
    /\ w.upload.kind = "response" /\ IsSuccess(w.upload.status)
    /\ w.upload.success

\* C19: an entry of the cover cache is never removed and never changed,
\* and an entry is added only by a cycle whose upload succeeded: it maps
\* the key of the selected book's series, not cached before, to the link
\* the upload returned.
C19_CacheStability ==
    [][ /\ \A e \in imgur_cache : e \in imgur_cache'
        /\ \A e \in imgur_cache' \ imgur_cache :
              /\ last'.upload_calls = 1 /\ UploadSucceeded(Unwrap(last'.world))
              /\ e[1] = CacheKey(Unwrap(last'.selected).seriesId)
              /\ e[2] = Unwrap(last'.world).upload.link
              /\ ~IsSome(CacheGet(imgur_cache, e[1]))
      ]_vars

\* Two series are cached, and a later cycle, whose upload would have
\* returned another link for a cached series, left the cache as it was.
C19_Witness ==
    /\ cycles >= 3 /\ Cardinality(imgur_cache) = 2
    /\ Pushed /\ last.cache_before = imgur_cache
    /\ IsSome(CachedBefore) /\ UploadSucceeded(Met)
    /\ Met.upload.link # Unwrap(CachedBefore)

\* installer, line 133: the thumbnail URL of the series on the server.
DirectThumbnailUrl(komga_url, series_id) ==
    komga_url \o "/api/v1/series/" \o series_id \o "/thumbnail"

\* The cover of the selected book's series was resolved and was not cached.
CoverMiss == CoverResolved /\ ~IsSome(CachedBefore)

\* C20: on a cache miss, with a re-hosting target configured the resolver
\* uploads the fetched thumbnail, caches the public URL and returns it;
\* with none configured (disabled, or no client id) it returns the direct
\* thumbnail URL of the server.
C20_CoverSource ==
    CoverMiss =>
        /\ (RehostingOn(config) /\ Met.thumb = ThumbOk /\ UploadSucceeded(Met)) =>
              /\ last.thumb_calls = 1 /\ last.upload_calls = 1
              /\ last.cover_url = Some(Met.upload.link)
              /\ last.cache = CacheInsert(last.cache_before,
                                  CacheKey(Unwrap(last.selected).seriesId),
                                  Met.upload.link)
        /\ ~RehostingOn(config) =>
              last.cover_url =
                  Some(DirectThumbnailUrl("http://komga:25600",
                                          Unwrap(last.selected).seriesId))

----------------------------------------------------------------------------
(* The page display.                                                       *)

\* The title of a book without any page text: metadata.title, else title,
\* else name, else "Untitled Book".
BookTitleOf(book) ==
    IF IsSome(book.meta_title) THEN Unwrap(book.meta_title)
    ELSE IF IsSome(book.title) THEN Unwrap(book.title)
    ELSE IF IsSome(book.name) THEN Unwrap(book.name)
    ELSE "Untitled Book"
SelectedPage == Unwrap(Unwrap(last.selected).readProgress).page

\* C22: the text of a pushed activity ends in "(Page N)" exactly when the
\* read progress of the selected book has a page number N: with a page
\* number the second line is the book title followed by " (Page N)", with
\* none it is the book title alone; the first line never carries a page.
C22_PageDisplay ==
    Pushed =>
        /\ Unwrap(last.activity).state =
              IF IsSome(SelectedPage)
              THEN BookTitleOf(Unwrap(last.selected))
                     \o " (Page " \o ToString(Unwrap(SelectedPage)) \o ")"
              ELSE BookTitleOf(Unwrap(last.selected))
        /\ Unwrap(last.activity).details = TitleOf(Met)

\* The selected book is on page 42 and the pushed text says so.
C22_Witness ==
    /\ Pushed /\ last.ipc_ok
    /\ SelectedPage = Some(42)
    /\ Unwrap(last.activity).state = "Untitled Book (Page 42)"

----------------------------------------------------------------------------
(* The paged scan.                                                         *)

\* The books of the pages a cycle requested, in listing order.
RECURSIVE ContentOf(_, _)
ContentOf(w, pages) ==
    IF pages = << >> THEN << >>
    ELSE ServerPage(w, Head(pages)).content \o ContentOf(w, Tail(pages))
Scanned == ContentOf(Met, last.pages)
FreshAt == { i \in 1..Len(Scanned) : FreshCandidate(Scanned[i]) }
FirstFresh == CHOOSE i \in FreshAt : \A j \in FreshAt : i <= j
LastPageLen == Len(ServerPage(Met, last.pages[Len(last.pages)]).content)

\* C23: a cycle whose listing calls all succeeded passes the freshness
\* gate exactly when an in-progress book with a parseable timestamp and an
\* age below 300 s is among the books of the requested pages.  The scan
\* stops at the first such book in listing order: that book is selected and
\* lies on the last page requested.  When there is none, a tracked stale
\* candidate ends in clear-activity.
C23_GateIffFreshListed ==
    ListingOk =>
        /\ GatePassed <=> FreshAt # {}
        /\ FreshAt # {} =>
              /\ last.found /\ last.selected = Some(Scanned[FirstFresh])
              /\ FirstFresh > Len(Scanned) - LastPageLen
        /\ FreshAt = {} =>
              /\ ~last.found
              /\ last.calls = << "clear" >> /\ last.activity = None
              /\ IsSome(last.selected) => last.branch = "too_old"

\* A stale candidate on the first page, two fresh books behind it: the
\* scan stopped at the first of them and never asked for the third page.
C23_Witness ==
    /\ ListingOk /\ Met.pageSize = 1 /\ Len(Met.books) = 3
    /\ Stamped(Met.books[1]) /\ ~FreshCandidate(Met.books[1])
    /\ FreshCandidate(Met.books[2]) /\ FreshCandidate(Met.books[3])
    /\ Met.books[2] # Met.books[3]
    /\ last.pages = << 0, 1 >> /\ last.selected = Some(Met.books[2])
    /\ GatePassed

\* The listing loop stops at page p: the request failed or was answered
\* non-2xx or with a body that is no JSON, or the page is empty, is flagged
\* last, or holds a fresh in-progress book.
StopsAt(w, p) ==
    LET response == ServerPage(w, p)
    IN \/ response.kind # "response"
       \/ ~IsSuccess(response.status)
       \/ response.content = << >>
       \/ response.last = Some(TRUE)
       \/ \E i \in 1..Len(response.content) : FreshCandidate(response.content[i])

\* C24: a cycle requests the pages 0, 1, 2, ... in increasing order and
\* stops at the first page that stops the loop; a page without the "last"
\* flag does not stop it.
C24_PagedScan ==
    Ran =>
        /\ Len(last.pages) >= 1
        /\ \A i \in 1..Len(last.pages) : last.pages[i] = i - 1
        /\ StopsAt(Met, last.pages[Len(last.pages)])
        /\ \A i \in 1..(Len(last.pages) - 1) : ~StopsAt(Met, last.pages[i])

\* Three stale books, one per page, none of the pages flagged: the loop
\* asked for a fourth page, found it empty and stopped.
C24_Witness ==
    /\ ListingOk /\ ~Met.lastFlag /\ Met.pageSize = 1 /\ Len(Met.books) = 3
    /\ last.pages = << 0, 1, 2, 3 >>
    /\ ServerPage(Met, 3).content = << >>
    /\ ~last.found /\ last.branch = "too_old"

----------------------------------------------------------------------------
(* The loop goes on.                                                       *)

\* The places of the loop; "returned" is main having returned an error.
LoopPlaces == { "top", "sleep", "close", "cooldown", "connect" }

\* C25: once connected, main never returns: whatever a cycle, a close or a
\* connect ended in, the loop is at one of its places.  The page update,
\* whose body alone could return an error from main, does nothing in any
\* state the loop reaches: no HTTP request, no call on the channel, no
\* error, no write to the cache.
C25_LoopNeverReturns ==
    /\ pc \in LoopPlaces
    /\ LET r == page_update(world, config, imgur_cache, discord)
       IN /\ r.err = << >> /\ r.http_calls = 0
          /\ r.calls = << >> /\ r.activity = None
          /\ r.cache = imgur_cache

\* After page updates, a cycle that failed on the channel, a close that
\* failed and a connect that failed, a further cycle failed as well, and
\* the loop is about to sleep.
C25_Witness ==
    /\ cycles >= 2 /\ last_page_update > 0
    /\ \E i, j \in 1..Len(last.prev_log) :
          /\ last.prev_log[i].op = "close" /\ ~last.prev_log[i].ok
          /\ last.prev_log[j].op = "connect" /\ ~last.prev_log[j].ok
    /\ last.err # << >>
    /\ pc = "sleep"

----------------------------------------------------------------------------
(* The failed reconnect.                                                   *)

\* The connects of the current iteration.
Connects == SelectSeq(log, LAMBDA e : e.op = "connect")

\* C26: after a cycle that failed with a pipe-classified error the close
\* of the old channel comes before the cooldown, whether the close
\* succeeded or not; the handle changes only to a new channel whose connect
\* succeeded; after a failed connect the loop holds the old handle (closed,
\* when the close succeeded), the connect is the last channel operation of
\* the iteration, and there is no second connect; a connect is attempted
\* only in an iteration whose cycle failed with a pipe-classified error.
C26_FailedReconnect ==
    /\ \A i \in 1..Len(ReconnectSteps) :
          ReconnectSteps[i].op = "cooldown" =>
              /\ i = 2 /\ ReconnectSteps[1].op = "close"
              /\ ReconnectSteps[1].chan = Handle.id
    /\ (Ran /\ discord.id # Handle.id) =>
          /\ Len(Connects) = 1 /\ Connects[1].ok
          /\ discord = [id |-> Connects[1].chan, open |-> TRUE]
    /\ (Connects # << >> /\ ~Connects[1].ok) =>
          /\ discord.id = Handle.id
          /\ ReconnectSteps[1].ok => ~discord.open
          /\ log[Len(log)] = Connects[1]
          /\ Len(PresenceCalls) <= 1
    /\ Len(Connects) <= 1
    /\ Connects # << >> => Ran /\ last.class = "pipe" /\ PipeInChain(last.err)

\* The close errored and the connect failed; the next cycle ran on the old
\* handle, failed with an error that is no pipe error, and the loop did not
\* try to reconnect.
C26_Witness ==
    /\ cycles >= 2 /\ Len(last.prev_log) = 4
    /\ last.prev_log[2].op = "close" /\ ~last.prev_log[2].ok
    /\ last.prev_log[4].op = "connect" /\ ~last.prev_log[4].ok
    /\ Handle.id = last.prev_log[2].chan /\ discord = Handle
    /\ last.calls # << >> /\ ~last.ipc_ok /\ last.class = "other"
    /\ Connects = << >> /\ pc = "sleep"

====
